---- MODULE Spec2Model ----
(***************************************************************************)
(* A model of the service test harness: ServiceTestRouter (router.py) and  *)
(* the wait helpers of NioServiceTestCase (service_test_case.py).          *)
(*                                                                         *)
(* One test thread calls notify_signals and wait_for_processed_signals;    *)
(* every dispatch of the router runs process_wrapper on a thread of its    *)
(* own (spawn).  Signals are objects on a heap, so that a copy and an      *)
(* alias are different things.                                             *)
(*                                                                         *)
(* The virtual-clock scheduler behind Job (scheduler/job.py) is a          *)
(* component of its own, with its own specification SchedSpec.             *)
(***************************************************************************)
EXTENDS Integers, Sequences, FiniteSets, TLC

(* ------------------------------ bounds -------------------------------- *)
MaxCalls == 1
MaxTasks == 2
BatchLen == 2
TimeoutTicks == 1
MaxJobs == 2
MaxDelay == 2
MaxAdvance == 3
MaxClock == 3

\* The firings counted for one task; further firings leave the count there.
MaxFired == 4

\* Calls of _published_signals in one test.
MaxPublishes == 2

\* Items of a list in a block configuration.
MaxItems == 2

(* ----------------------------- constants ------------------------------ *)
DefaultTerminal == "__default_terminal_value"

None == "None"

Receiver(n, i) == [name |-> n, input |-> i]

NoReceivers == <<>>

Terminal(n) == [name |-> n, receivers |-> NoReceivers]

\* N fans out on "X" to A and B and has a default-terminal receiver C.
FanOutGraph ==
    [execution |->
        << [name |-> "N",
            receivers |-> ("X" :> << Receiver("A", DefaultTerminal),
                                     Receiver("B", DefaultTerminal) >>)
                       @@ (DefaultTerminal :> << Receiver("C", DefaultTerminal) >>)],
           Terminal("A"), Terminal("B"), Terminal("C") >>,
     blocks |-> {"N", "A", "B", "C"}]

\* N's output "X" goes to the named input "in" of A and to B; no default entry.
NamedInputGraph ==
    [execution |->
        << [name |-> "N",
            receivers |-> ("X" :> << Receiver("A", "in"),
                                     Receiver("B", DefaultTerminal) >>)],
           Terminal("A"), Terminal("B") >>,
     blocks |-> {"N", "A", "B"}]

\* The execution names M between A and B, but _setup_blocks skipped M.
SkippedBlockGraph ==
    [execution |->
        << [name |-> "N",
            receivers |-> ("X" :> << Receiver("A", DefaultTerminal),
                                     Receiver("M", DefaultTerminal),
                                     Receiver("B", DefaultTerminal) >>)],
           Terminal("A"), Terminal("M"), Terminal("B") >>,
     blocks |-> {"N", "A", "B"}]

\* N's output "X" goes to two inputs of A: two dispatches to one receiver.
TwoInputsGraph ==
    [execution |->
        << [name |-> "N",
            receivers |-> ("X" :> << Receiver("A", DefaultTerminal),
                                     Receiver("A", "in") >>)],
           Terminal("A") >>,
     blocks |-> {"N", "A"}]

\* As SkippedBlockGraph, with the receiver before the skipped M taking the
\* batch on its named input "in"; output "Y" goes to C.
SkippedAfterNamedGraph ==
    [execution |->
        << [name |-> "N",
            receivers |-> ("X" :> << Receiver("A", "in"),
                                     Receiver("M", DefaultTerminal),
                                     Receiver("B", DefaultTerminal) >>)
                       @@ ("Y" :> << Receiver("C", DefaultTerminal) >>)],
           Terminal("A"), Terminal("M"), Terminal("B"), Terminal("C") >>,
     blocks |-> {"N", "A", "B", "C"}]

Graphs == {FanOutGraph, NamedInputGraph, SkippedBlockGraph, TwoInputsGraph}

BlockNames == {"N", "A", "B", "C", "M"}

\* Names a test passes as the emitting block; "Z" is in no execution.
Sources == {"N", "Z"}

OutputIds == {"X", "Y", DefaultTerminal}

InputIds == {None, "in"}

\* The blocks a test waits on.
WaitBlocks == {"A", "B", "C"}

\* 0 waits for the next batch; one batch reaches BatchLen, not BatchLen + 1.
Counts == {0, BatchLen, BatchLen + 1}

\* The blocks whose own process_signals rewrites the signals it is given.
Mutators == {"A"}

\* How a block's own process_signals ends.
Outcomes == {"return", "raise"}

VARIABLES
    execution,          \* ServiceTestRouter._execution
    blocks,             \* ServiceTestRouter._blocks (its keys)
    processed_signals,  \* ServiceTestRouter._processed_signals
    processed_event,    \* block._processed_event: the Event's flag
    heap,               \* the signal objects: id -> value
    tasks,              \* the threads spawn started, in spawn order
    pc,                 \* where the test thread is
    nf,                 \* the frame of the running notify_signals call
    wf,                 \* the frame of the running wait_for_processed_signals call
    calls,              \* the notify_signals calls made so far
    waited              \* how the test's wait_for_processed_signals call ended

routerVars == << execution, blocks, processed_signals, processed_event, heap,
                 tasks, pc, nf, wf, calls, waited >>

VARIABLES
    clock,              \* the scheduler's virtual clock
    jobs,               \* the tasks scheduled so far, in scheduling order
    spc,                \* where the thread driving the scheduler is
    last,               \* the last advance: the clock it began at, its duration
    asked               \* what each Job was created with: delta, repeatable

schedVars == << clock, jobs, spc, last, asked >>

VARIABLES
    published_signals,  \* topic -> the signals captured for it (a defaultdict)
    publisher_event,    \* the flag of _publisher_event
    pubs,               \* the _published_signals calls made so far
    ppc,                \* where the thread in wait_for_published_signals is
    pf,                 \* the frame of wait_for_published_signals
    pwaited             \* how the wait_for_published_signals call ended

pubVars == << published_signals, publisher_event, pubs, ppc, pf, pwaited >>

VARIABLES
    original,           \* the configuration _replace_env_vars was called with
    config,             \* the configuration as _replace_env_vars has it now
    todo,               \* the env_vars() names the loop has still to visit
    returned            \* whether _replace_env_vars has returned

envVars == << original, config, todo, returned >>

\* The state outside the router and the test's wait helpers.
outside == << schedVars, pubVars, envVars >>

vars == << routerVars, outside >>

NoFrame == << >>

\* No wait_for_processed_signals call has ended yet.
NotWaited == [result |-> None]

(* ----------------------------- helpers -------------------------------- *)
Range(s) == {s[i] : i \in DOMAIN s}

Values(h, batch) == [i \in DOMAIN batch |-> h[batch[i]]]

ExecutionNames == {execution[i].name : i \in DOMAIN execution}

TasksOf(c) == {i \in DOMAIN tasks : tasks[i].call = c}

(* ----------------------------- router --------------------------------- *)
\* [block["receivers"] for block in self._execution if block["name"] == name][0]
\* IndexError when no block of the execution has the name.
AllReceiversIndexErrorMut(name) ==
    LET found == SelectSeq(execution, LAMBDA b : b.name = name)
    IN  IF found = << >> THEN [ok |-> TRUE, receivers |-> NoReceivers]
        ELSE [ok |-> TRUE, receivers |-> found[1].receivers]

AllReceivers(name) ==
    LET found == SelectSeq(execution, LAMBDA b : b.name = name)
    IN  IF found = << >> THEN [ok |-> FALSE, receivers |-> NoReceivers]
        ELSE [ok |-> TRUE, receivers |-> found[1].receivers]

\* dict.get(key, default)
Get(d, key, default) == IF key \in DOMAIN d THEN d[key] ELSE default

ResolveReceiversMut(all_receivers, output_id) ==
    Get(all_receivers, DefaultTerminal, Get(all_receivers, output_id, << >>))

\* all_receivers.get(output_id, all_receivers.get("__default_terminal_value", []))
ResolveReceivers(all_receivers, output_id) ==
    Get(all_receivers, output_id, Get(all_receivers, DefaultTerminal, << >>))

DeepCopyAliasMut(h, signals) == [heap |-> h, signals |-> signals]

\* deepcopy(signals): a new list of new signal objects with the same values.
DeepCopy(h, signals) ==
    [heap    |-> h \o Values(h, signals),
     signals |-> [i \in DOMAIN signals |-> Len(h) + i]]

\* The arguments spawn passes on to to_block.process_signals.
SpawnArgs(cloned_signals, input_id) ==
    IF input_id = DefaultTerminal THEN << cloned_signals >>
    ELSE << cloned_signals, input_id >>

SpawnAwaitsJoinMut(ts, call) == {i \in DOMAIN ts : ts[i].call = call}

\* The threads the caller of spawn waits for before spawn returns: none,
\* spawn starts the thread and returns.
SpawnAwaits(ts, call) == {}

WrapperStepsNotifyFirstMut == << "process_signals", "set", "clear", "extend" >>

WrapperStepsExtendFirstMut == << "extend", "process_signals", "set", "clear" >>

\* process_wrapper, with _processed_signals_set inlined.
WrapperSteps == << "process_signals", "extend", "set", "clear" >>

Step(t) == IF t.pc \in DOMAIN WrapperSteps THEN WrapperSteps[t.pc] ELSE "end"

Advance(t) ==
    [t EXCEPT !.pc = @ + 1,
              !.status = IF t.pc + 1 \in DOMAIN WrapperSteps THEN "running" ELSE "done"]

Running(i) == i \in DOMAIN tasks /\ tasks[i].status = "running"

(* ------------------------------- Init --------------------------------- *)
\* router.py 11-15: the router as __init__ leaves it.
RouterFresh ==
    /\ processed_signals = [b \in BlockNames |-> << >>]
    /\ processed_event = [b \in BlockNames |-> FALSE]
    /\ heap = << >>
    /\ tasks = << >>
    /\ pc = "idle"
    /\ nf = NoFrame
    /\ wf = NoFrame
    /\ calls = << >>
    /\ waited = NotWaited

RouterInit ==
    /\ \E g \in Graphs : execution = g.execution /\ blocks = g.blocks
    /\ RouterFresh

(* -------------------------- notify_signals ---------------------------- *)
\* What is remembered of a notify_signals call: its arguments, the values
\* the batch held when it was emitted, and how the call ended.
CallRecord(src, output_id, signals, status) ==
    [src |-> src, output_id |-> output_id, signals |-> signals,
     emitted |-> [i \in DOMAIN signals |-> "v"], status |-> status]

\* router.py 22-28: the test builds a batch and calls notify_signals.
NotifyCall(src, output_id) ==
    LET all == AllReceivers(src)
        receivers == ResolveReceivers(all.receivers, output_id)
        signals == [i \in 1..BatchLen |-> Len(heap) + i]
        call == Len(calls) + 1
    IN  /\ pc = "idle"
        /\ Len(calls) < MaxCalls
        /\ Len(tasks) + Len(SelectSeq(receivers, LAMBDA r : r.name \in blocks)) <= MaxTasks
        /\ heap' = heap \o [i \in 1..BatchLen |-> "v"]
        /\ IF all.ok
           THEN /\ pc' = "dispatch"
                /\ nf' = [signals |-> signals, receivers |-> receivers,
                          idx |-> 1, call |-> call]
                /\ calls' = Append(calls, CallRecord(src, output_id, signals, "running"))
           ELSE /\ pc' = "failed"
                /\ nf' = NoFrame
                /\ calls' = Append(calls, CallRecord(src, output_id, signals, "IndexError"))
        /\ UNCHANGED << outside, execution, blocks, processed_signals, processed_event,
                        tasks, wf, waited >>

\* router.py 29-39: one turn of the loop over the receivers.
Dispatch ==
    /\ pc = "dispatch"
    /\ nf.idx <= Len(nf.receivers)
    /\ \A i \in SpawnAwaits(tasks, nf.call) : tasks[i].status = "done"
    /\ LET receiver == nf.receivers[nf.idx]
           copy == DeepCopy(heap, nf.signals)
       IN  IF receiver.name \in blocks
           THEN /\ heap' = copy.heap
                /\ tasks' = Append(tasks,
                             [block |-> receiver.name,
                              args |-> SpawnArgs(copy.signals, receiver.input),
                              pc |-> 1, status |-> "running", err |-> None,
                              call |-> nf.call,
                              returned |-> FALSE, mutated |-> FALSE])
                /\ nf' = [nf EXCEPT !.idx = @ + 1]
                /\ UNCHANGED << pc, calls >>
           ELSE \* self._blocks[receiver_name] raises KeyError
                /\ pc' = "failed"
                /\ nf' = NoFrame
                /\ calls' = [calls EXCEPT ![nf.call].status = "KeyError"]
                /\ UNCHANGED << heap, tasks >>
    /\ UNCHANGED << outside, execution, blocks, processed_signals, processed_event, wf, waited >>

NotifyReturn ==
    /\ pc = "dispatch"
    /\ nf.idx > Len(nf.receivers)
    /\ \A i \in SpawnAwaits(tasks, nf.call) : tasks[i].status = "done"
    /\ pc' = "idle"
    /\ nf' = NoFrame
    /\ calls' = [calls EXCEPT ![nf.call].status = "returned"]
    /\ UNCHANGED << outside, execution, blocks, processed_signals, processed_event, heap,
                    tasks, wf, waited >>

NotifyStep == Dispatch \/ NotifyReturn

(* -------------------------- process_wrapper --------------------------- *)
\* router.py 50: process_signals(*args, **kwargs), the block's own processing.
ProcessSignals(i, outcome) ==
    /\ Running(i)
    /\ Step(tasks[i]) = "process_signals"
    /\ LET t == tasks[i]
       IN  IF outcome = "return"
           THEN /\ tasks' = [tasks EXCEPT ![i] =
                               [Advance(t) EXCEPT !.returned = TRUE,
                                                  !.mutated = t.block \in Mutators]]
                /\ heap' = IF t.block \in Mutators
                           THEN [heap EXCEPT ![t.args[1][1]] = "mutated"]
                           ELSE heap
           ELSE /\ tasks' = [tasks EXCEPT ![i] =
                               [t EXCEPT !.status = "raised", !.err = "ProcessingError"]]
                /\ heap' = heap
    /\ UNCHANGED << outside, execution, blocks, processed_signals, processed_event,
                    pc, nf, wf, calls, waited >>

LedgerEntryOriginalMut(t) == calls[t.call].signals

\* What extend(*args) appends when args is one list: the list the entry point
\* was invoked with.
LedgerEntry(t) == t.args[1]

\* router.py 51: self._processed_signals[block_name].extend(*args)
\* list.extend takes one argument: with an input id among args it is a TypeError.
Extend(i) ==
    /\ Running(i)
    /\ Step(tasks[i]) = "extend"
    /\ LET t == tasks[i]
       IN  IF Len(t.args) = 1
           THEN /\ processed_signals' =
                      [processed_signals EXCEPT ![t.block] = @ \o LedgerEntry(t)]
                /\ tasks' = [tasks EXCEPT ![i] = Advance(t)]
           ELSE /\ tasks' = [tasks EXCEPT ![i] =
                               [t EXCEPT !.status = "raised", !.err = "TypeError"]]
                /\ UNCHANGED processed_signals
    /\ UNCHANGED << outside, execution, blocks, processed_event, heap, pc, nf, wf, calls, waited >>

\* router.py 42: _processed_event.set() sets the flag and wakes every waiter.
EventSet(i) ==
    /\ Running(i)
    /\ Step(tasks[i]) = "set"
    /\ LET t == tasks[i]
       IN  /\ processed_event' = [processed_event EXCEPT ![t.block] = TRUE]
           /\ tasks' = [tasks EXCEPT ![i] = Advance(t)]
           /\ wf' = IF pc = "blocked" /\ wf.block = t.block
                    THEN [wf EXCEPT !.notified = TRUE] ELSE wf
    /\ UNCHANGED << outside, execution, blocks, processed_signals, heap, pc, nf, calls, waited >>

\* router.py 43: _processed_event.clear()
EventClear(i) ==
    /\ Running(i)
    /\ Step(tasks[i]) = "clear"
    /\ LET t == tasks[i]
       IN  /\ processed_event' = [processed_event EXCEPT ![t.block] = FALSE]
           /\ tasks' = [tasks EXCEPT ![i] = Advance(t)]
    /\ UNCHANGED << outside, execution, blocks, processed_signals, heap, pc, nf, wf, calls, waited >>

(* ------------------------- direct invocation -------------------------- *)
\* router.py 62-63: after configure, block.process_signals is the wrapper,
\* whoever calls it. Some thread calls b.process_signals(signals) or
\* b.process_signals(signals, input_id) without going through the router.
DirectInvoke(b, input_id) ==
    LET signals == [i \in 1..BatchLen |-> Len(heap) + i]
    IN  /\ b \in blocks
        /\ Len(tasks) < MaxTasks
        /\ heap' = heap \o [i \in 1..BatchLen |-> "v"]
        /\ calls' = Append(calls, CallRecord(b, input_id, signals, "direct"))
        /\ tasks' = Append(tasks,
                     [block |-> b,
                      args |-> SpawnArgs(signals, input_id),
                      pc |-> 1, status |-> "running", err |-> None,
                      call |-> Len(calls) + 1,
                      returned |-> FALSE, mutated |-> FALSE])
        /\ UNCHANGED << outside, execution, blocks, processed_signals, processed_event,
                        pc, nf, wf, waited >>

DirectNext ==
    \/ \E b \in BlockNames, input_id \in {DefaultTerminal, "in"} : DirectInvoke(b, input_id)
    \/ \E i \in 1..MaxTasks, outcome \in Outcomes : ProcessSignals(i, outcome)
    \/ \E i \in 1..MaxTasks : Extend(i)
    \/ \E i \in 1..MaxTasks : EventSet(i)
    \/ \E i \in 1..MaxTasks : EventClear(i)

(* --------------------- wait_for_processed_signals --------------------- *)
\* The ledger of b holds count signals and every append to it has already
\* been followed by its set of the event: nothing is left to wake a waiter.
CountReached(b, count) ==
    /\ count <= Len(processed_signals[b])
    /\ ~ \E i \in DOMAIN tasks :
            tasks[i].block = b /\ tasks[i].status = "running" /\ Step(tasks[i]) = "set"

\* The dispatches to b whose set of b's completion event has been done.
SetBy(b) ==
    {i \in DOMAIN tasks :
        /\ tasks[i].block = b
        /\ \E k \in DOMAIN WrapperSteps : WrapperSteps[k] = "set" /\ tasks[i].pc > k}

\* fresh: some dispatch set the event after the wait began.
WaitRecord(result) ==
    [block |-> wf.block, count |-> wf.count, input_id |-> wf.input_id,
     result |-> result, reachedAtWait |-> wf.reachedAtWait,
     fresh |-> SetBy(wf.block) \ wf.setBefore # {}]

\* service_test_case.py 415-423: entry, up to the choice of signal_list.
\* The router has no processed_signals_input: reading it is an AttributeError.
WaitCall(b, count, input_id) ==
    /\ pc = "idle"
    /\ b \in blocks
    /\ wf' = [block |-> b, count |-> count, input_id |-> input_id,
              waited |-> 0, elapsed |-> 0, notified |-> FALSE, reachedAtWait |-> FALSE,
              setBefore |-> SetBy(b)]
    /\ pc' = IF count = 0 THEN "wait"
             ELSE IF input_id # None THEN "raising" ELSE "check"
    /\ UNCHANGED << outside, execution, blocks, processed_signals, processed_event, heap,
                    tasks, nf, calls, waited >>

WaitAttributeError ==
    /\ pc = "raising"
    /\ pc' = "failed"
    /\ wf' = NoFrame
    /\ waited' = WaitRecord("AttributeError")
    /\ UNCHANGED << outside, execution, blocks, processed_signals, processed_event, heap,
                    tasks, nf, calls >>

\* service_test_case.py 424: while count > len(signal_list)
WaitCheck ==
    /\ pc = "check"
    /\ IF wf.count > Len(processed_signals[wf.block])
       THEN /\ pc' = "wait"
            /\ UNCHANGED << wf, waited >>
       ELSE /\ pc' = "finished"
            /\ wf' = NoFrame
            /\ waited' = WaitRecord("satisfied")
    /\ UNCHANGED << outside, execution, blocks, processed_signals, processed_event, heap,
                    tasks, nf, calls >>

\* After _processed_event.wait returned True.
Woken ==
    IF wf.count = 0
    THEN /\ pc' = "idle"
         /\ wf' = NoFrame
         /\ waited' = WaitRecord("event")
    ELSE /\ pc' = "check"
         /\ wf' = [wf EXCEPT !.notified = FALSE, !.waited = 0]
         /\ UNCHANGED waited

\* service_test_case.py 417, 425: _processed_event.wait(timeout) is entered;
\* a set flag returns True at once, a clear one blocks the thread.
WaitEnter ==
    /\ pc = "wait"
    /\ IF processed_event[wf.block]
       THEN Woken
       ELSE /\ pc' = "blocked"
            /\ wf' = [wf EXCEPT !.waited = 0, !.notified = FALSE,
                                !.reachedAtWait = CountReached(wf.block, wf.count)]
            /\ UNCHANGED waited
    /\ UNCHANGED << outside, execution, blocks, processed_signals, processed_event, heap,
                    tasks, nf, calls >>

\* The blocked thread was notified by set(): wait returns True.
WaitWake ==
    /\ pc = "blocked"
    /\ wf.notified
    /\ Woken
    /\ UNCHANGED << outside, execution, blocks, processed_signals, processed_event, heap,
                    tasks, nf, calls >>

\* Time passes for the blocked thread.
Tick ==
    /\ pc = "blocked"
    /\ ~ wf.notified
    /\ wf.waited < TimeoutTicks
    /\ wf' = [wf EXCEPT !.waited = @ + 1, !.elapsed = @ + 1]
    /\ UNCHANGED << outside, execution, blocks, processed_signals, processed_event, heap,
                    tasks, pc, nf, calls, waited >>

\* The timeout of _processed_event.wait expired: it returns False, and
\* wait_for_processed_signals returns.
WaitTimeout ==
    /\ pc = "blocked"
    /\ ~ wf.notified
    /\ wf.waited = TimeoutTicks
    /\ pc' = "finished"
    /\ wf' = NoFrame
    /\ waited' = WaitRecord("timeout")
    /\ UNCHANGED << outside, execution, blocks, processed_signals, processed_event, heap,
                    tasks, nf, calls >>


(* ============================ scheduler =============================== *)
Delays == {-1} \cup (1..MaxDelay)

\* What the target of a task does when it is fired: nothing to the
\* scheduler, cancel its own job, or schedule a one-shot task of delay 0.
Targets == {"plain", "cancel", "schedule"}

PlainTargets == {"plain"}

\* The delays of the tests whose targets call back into the scheduler.
TargetDelays == {-1, 0, 1}

\* The advances of those tests.
TargetDurations == {1, 2}

Durations == 1..MaxAdvance

\* scheduleTask(target, delay, repeatable): a Pending task due at now + delay.
ScheduleTask(js, now, delay, repeatable) ==
    Append(js, [delay |-> delay, repeatable |-> repeatable, due |-> now + delay,
                state |-> "Pending", fired |-> 0,
                scheduledAt |-> now, cancelCalled |-> FALSE])

\* unschedule(job): marks the task Cancelled, idempotently.
Unschedule(js, j) == [js EXCEPT ![j].state = "Cancelled"]

\* The Pending tasks whose due time is at or before now.
Due(js, now) == {j \in DOMAIN js : js[j].state = "Pending" /\ js[j].due <= now}

\* The due task to fire first: least due time, ties broken by scheduling order.
FirstDue(js, now) ==
    CHOOSE j \in Due(js, now) :
       \A k \in Due(js, now) :
          js[j].due < js[k].due \/ (js[j].due = js[k].due /\ j <= k)

Counted(n) == IF n < MaxFired THEN n + 1 ELSE MaxFired

\* The end of one firing: a repeating task still Pending is re-armed for
\* now + delay, one cancelled during the firing is not, a one-shot task
\* retires.
Fire(js, j, now) ==
    IF js[j].repeatable
    THEN IF js[j].state = "Pending"
         THEN [js EXCEPT ![j].fired = Counted(@), ![j].due = now + js[j].delay]
         ELSE [js EXCEPT ![j].fired = Counted(@)]
    ELSE [js EXCEPT ![j].fired = Counted(@), ![j].state = "Cancelled"]

\* advance(duration) begins by raising the clock by the whole duration.
SchedulerJumpAhead(now, seconds) == now + seconds

JobInitRepeatMut(js, now, delta, repeatable) == ScheduleTask(js, now, delta, TRUE)

\* Job.__init__: self._job = Scheduler.schedule_task(target, delta, repeatable, ...)
JobInit(js, now, delta, repeatable) == ScheduleTask(js, now, delta, repeatable)

JobCancelNoopMut(js, j) == js

\* Job.cancel: Scheduler.unschedule(self._job)
JobCancel(js, j) == Unschedule(js, j)

JobJumpAheadNoopMut(now, seconds) == now

JobJumpAheadBackMut(now, seconds) == now - seconds

\* Job.jump_ahead: Scheduler.jump_ahead(seconds)
JobJumpAhead(now, seconds) == SchedulerJumpAhead(now, seconds)

\* No task has been fired yet in this advance.
NoFiring == [due |-> -1, idx |-> 0]

\* via: the job whose handle the advance under way was requested through;
\* odd: whether the advance under way has made an odd number of firings.
NoAdvance == [from |-> 0, by |-> 0, prev |-> NoFiring, via |-> 0, odd |-> FALSE]

\* What the target of task j does to the scheduler while j is being fired.
RunTarget(js, j, now, target) ==
    CASE target = "cancel"   -> [JobCancel(js, j) EXCEPT ![j].cancelCalled = TRUE]
      [] target = "schedule" -> JobInit(js, now, 0, FALSE)
      [] OTHER               -> js

ChildOf(target) == [delta |-> 0, repeatable |-> FALSE, target |-> "plain"]

SchedInit ==
    /\ clock = 0
    /\ jobs = << >>
    /\ spc = "idle"
    /\ last = NoAdvance
    /\ asked = << >>

\* A test creates a Job; a negative delay is rejected with InvalidDelayError.
NewJob(delta, repeatable, target) ==
    /\ spc = "idle"
    /\ Len(jobs) < MaxJobs
    /\ target = "schedule" => ~ repeatable
    /\ IF delta < 0
       THEN spc' = "failed" /\ UNCHANGED << jobs, asked >>
       ELSE /\ jobs' = JobInit(jobs, clock, delta, repeatable)
            /\ asked' = Append(asked, [delta |-> delta, repeatable |-> repeatable,
                                       target |-> target])
            /\ UNCHANGED spc
    /\ UNCHANGED << clock, last, routerVars, pubVars, envVars >>

\* A test calls cancel() on a Job it holds.
CancelJob(j) ==
    /\ spc = "idle"
    /\ j \in DOMAIN jobs
    /\ jobs' = [JobCancel(jobs, j) EXCEPT ![j].cancelCalled = TRUE]
    /\ UNCHANGED << clock, spc, last, asked, routerVars, pubVars, envVars >>

\* A test calls jump_ahead(seconds) on a Job it holds.
JumpAhead(j, seconds) ==
    /\ spc = "idle"
    /\ j \in DOMAIN jobs
    /\ clock + seconds <= MaxClock
    /\ clock' = JobJumpAhead(clock, seconds)
    /\ last' = [from |-> clock, by |-> seconds, prev |-> NoFiring, via |-> j,
                odd |-> FALSE]
    /\ spc' = "firing"
    /\ UNCHANGED << jobs, asked, routerVars, pubVars, envVars >>

\* Inside advance: the next due task is fired on the calling thread.
FireDue ==
    /\ spc = "firing"
    /\ Due(jobs, clock) # {}
    /\ LET j == FirstDue(jobs, clock)
           target == asked[j].target
       IN  /\ jobs' = Fire(RunTarget(jobs, j, clock, target), j, clock)
           /\ asked' = IF target = "schedule" THEN Append(asked, ChildOf(target))
                       ELSE asked
           /\ last' = [last EXCEPT !.prev = [due |-> jobs[j].due, idx |-> j],
                                   !.odd = ~ @]
    /\ UNCHANGED << clock, spc, routerVars, pubVars, envVars >>

\* Inside advance: no task is due any more, advance returns.
AdvanceReturn ==
    /\ spc = "firing"
    /\ Due(jobs, clock) = {}
    /\ spc' = "idle"
    /\ last' = [last EXCEPT !.prev = NoFiring, !.via = 0, !.odd = FALSE]
    /\ UNCHANGED << clock, jobs, asked, routerVars, pubVars, envVars >>

SchedNext ==
    \/ \E delta \in Delays, repeatable \in BOOLEAN, target \in PlainTargets :
          NewJob(delta, repeatable, target)
    \/ \E j \in 1..MaxJobs : CancelJob(j)
    \/ \E j \in 1..MaxJobs, seconds \in Durations : JumpAhead(j, seconds)
    \/ FireDue
    \/ AdvanceReturn

\* The tests whose targets call back into the scheduler while they are fired:
\* they create their jobs before they first advance the clock.
TargetNext ==
    \/ \E delta \in TargetDelays, repeatable \in BOOLEAN, target \in Targets :
          clock = 0 /\ NewJob(delta, repeatable, target)
    \/ \E j \in 1..MaxJobs : CancelJob(j)
    \/ \E j \in 1..MaxJobs, seconds \in TargetDurations : JumpAhead(j, seconds)
    \/ FireDue
    \/ AdvanceReturn

(* ========================= published signals ========================== *)
Topics == {"t1", "t2"}

PublishLens == 1..BatchLen

PublishCounts == 0..BatchLen

\* The signals of the k-th publication.
Published(k, n) == [x \in 1..n |-> k]

NoTopics == [t \in {} |-> << >>]

\* published_signals[topic] on a defaultdict(list): a missing key reads as [].
TopicList(ps, topic) == IF topic \in DOMAIN ps THEN ps[topic] ELSE << >>

\* service_test_case.py 390: self.published_signals[topic].extend(signals)
ExtendTopic(ps, topic, signals) ==
    [t \in DOMAIN ps \cup {topic} |->
        IF t = topic THEN TopicList(ps, topic) \o signals ELSE ps[t]]

RECURSIVE TotalOver(_, _)
TotalOver(ps, ts) ==
    IF ts = {} THEN 0
    ELSE LET t == CHOOSE x \in ts : TRUE
         IN  Len(ps[t]) + TotalOver(ps, ts \ {t})

\* The number of signals captured, over all topics.
TotalPublished(ps) == TotalOver(ps, DOMAIN ps)

\* service_test_case.py 442, 525: len(self.published_signals), the number of
\* keys of the dict.
NumPublished(ps) == Cardinality(DOMAIN ps)

PubSteps == << "extend", "set", "clear" >>

PubInit ==
    /\ published_signals = NoTopics
    /\ publisher_event = FALSE
    /\ pubs = << >>
    /\ ppc = "idle"
    /\ pf = NoFrame
    /\ pwaited = NotWaited

\* A subscriber delivers signals on a topic: _published_signals is entered
\* on the delivering thread.
Publish(topic, n) ==
    /\ Len(pubs) < MaxPublishes
    /\ pubs' = Append(pubs, [topic |-> topic,
                             signals |-> Published(Len(pubs) + 1, n), pc |-> 1])
    /\ UNCHANGED << published_signals, publisher_event, ppc, pf, pwaited,
                    routerVars, schedVars, envVars >>

PubAt(i, step) ==
    /\ i \in DOMAIN pubs
    /\ pubs[i].pc <= Len(PubSteps)
    /\ PubSteps[pubs[i].pc] = step

\* service_test_case.py 390
PubExtend(i) ==
    /\ PubAt(i, "extend")
    /\ published_signals' = ExtendTopic(published_signals, pubs[i].topic, pubs[i].signals)
    /\ pubs' = [pubs EXCEPT ![i].pc = @ + 1]
    /\ UNCHANGED << publisher_event, ppc, pf, pwaited, routerVars, schedVars, envVars >>

\* service_test_case.py 391: _publisher_event.set()
PubEventSet(i) ==
    /\ PubAt(i, "set")
    /\ publisher_event' = TRUE
    /\ pubs' = [pubs EXCEPT ![i].pc = @ + 1]
    /\ pf' = IF ppc = "blocked" THEN [pf EXCEPT !.notified = TRUE] ELSE pf
    /\ UNCHANGED << published_signals, ppc, pwaited, routerVars, schedVars, envVars >>

\* service_test_case.py 392: _publisher_event.clear()
PubEventClear(i) ==
    /\ PubAt(i, "clear")
    /\ publisher_event' = FALSE
    /\ pubs' = [pubs EXCEPT ![i].pc = @ + 1]
    /\ UNCHANGED << published_signals, ppc, pf, pwaited, routerVars, schedVars, envVars >>

\* count signals are captured and every extend has been followed by its
\* set of the event: nothing is left to wake a waiter.
PublishedReached(count) ==
    /\ count <= TotalPublished(published_signals)
    /\ ~ \E i \in DOMAIN pubs : PubAt(i, "set")

PubWaitRecord(result) ==
    [count |-> pf.count, result |-> result, reachedAtCheck |-> pf.reachedAtCheck,
     total |-> TotalPublished(published_signals)]

\* service_test_case.py 437-440: entry of wait_for_published_signals
PubWaitCall(count) ==
    /\ ppc = "idle"
    /\ pwaited = NotWaited
    /\ pf' = [count |-> count, waited |-> 0, notified |-> FALSE,
              reachedAtCheck |-> FALSE]
    /\ ppc' = IF count = 0 THEN "wait" ELSE "check"
    /\ UNCHANGED << published_signals, publisher_event, pubs, pwaited,
                    routerVars, schedVars, envVars >>

\* service_test_case.py 442: while count > len(self.published_signals)
PubWaitCheck ==
    /\ ppc = "check"
    /\ IF pf.count > NumPublished(published_signals)
       THEN /\ ppc' = "wait"
            /\ pf' = [pf EXCEPT !.reachedAtCheck = PublishedReached(pf.count)]
            /\ UNCHANGED pwaited
       ELSE /\ ppc' = "finished"
            /\ pf' = NoFrame
            /\ pwaited' = PubWaitRecord("satisfied")
    /\ UNCHANGED << published_signals, publisher_event, pubs, routerVars, schedVars, envVars >>

\* After _publisher_event.wait returned True.
PubWoken ==
    IF pf.count = 0
    THEN /\ ppc' = "finished"
         /\ pf' = NoFrame
         /\ pwaited' = PubWaitRecord("event")
    ELSE /\ ppc' = "check"
         /\ pf' = [pf EXCEPT !.notified = FALSE, !.waited = 0]
         /\ UNCHANGED pwaited

\* service_test_case.py 440, 443: _publisher_event.wait(timeout) is entered.
PubWaitEnter ==
    /\ ppc = "wait"
    /\ IF publisher_event
       THEN PubWoken
       ELSE /\ ppc' = "blocked"
            /\ pf' = [pf EXCEPT !.waited = 0, !.notified = FALSE]
            /\ UNCHANGED pwaited
    /\ UNCHANGED << published_signals, publisher_event, pubs, routerVars, schedVars, envVars >>

\* The blocked thread was notified by set(): wait returns True.
PubWaitWake ==
    /\ ppc = "blocked"
    /\ pf.notified
    /\ PubWoken
    /\ UNCHANGED << published_signals, publisher_event, pubs, routerVars, schedVars, envVars >>

\* Time passes for the blocked thread.
PubTick ==
    /\ ppc = "blocked"
    /\ ~ pf.notified
    /\ pf.waited < TimeoutTicks
    /\ pf' = [pf EXCEPT !.waited = @ + 1]
    /\ UNCHANGED << published_signals, publisher_event, pubs, ppc, pwaited,
                    routerVars, schedVars, envVars >>

\* service_test_case.py 443-444: wait timed out, the helper returns.
PubWaitTimeout ==
    /\ ppc = "blocked"
    /\ ~ pf.notified
    /\ pf.waited = TimeoutTicks
    /\ ppc' = "finished"
    /\ pf' = NoFrame
    /\ pwaited' = PubWaitRecord("timeout")
    /\ UNCHANGED << published_signals, publisher_event, pubs, routerVars, schedVars, envVars >>

PubNext ==
    \/ \E topic \in Topics, n \in PublishLens : Publish(topic, n)
    \/ \E i \in 1..MaxPublishes : PubExtend(i)
    \/ \E i \in 1..MaxPublishes : PubEventSet(i)
    \/ \E i \in 1..MaxPublishes : PubEventClear(i)
    \/ \E count \in PublishCounts : PubWaitCall(count)
    \/ PubWaitCheck
    \/ PubWaitEnter
    \/ PubWaitWake
    \/ PubTick
    \/ PubWaitTimeout

(* ======================== environment variables ======================= *)
\* env_vars() of the test, each value as str(value) gives it.
EnvVars == [VAR |-> "var", VAR_1 |-> "1"]

EnvNames == << "VAR", "VAR_1" >>

\* A string is a sequence of pieces: plain text, or a reference [[NAME]],
\* padded when written with white space inside the brackets, [[ NAME ]].
Text(x) == [t |-> "text", s |-> x, pad |-> FALSE]
Ref(name) == [t |-> "ref", s |-> name, pad |-> FALSE]
PaddedRef(name) == [t |-> "ref", s |-> name, pad |-> TRUE]

\* Configuration values: str, int, dict (its properties in order), list.
StrV(toks) == [kind |-> "str", toks |-> toks, n |-> 0, fields |-> << >>, items |-> << >>]
IntV(n) == [kind |-> "int", toks |-> << >>, n |-> n, fields |-> << >>, items |-> << >>]
DictV(fields) == [kind |-> "dict", toks |-> << >>, n |-> 0, fields |-> fields, items |-> << >>]
ListV(items) == [kind |-> "list", toks |-> << >>, n |-> 0, fields |-> << >>, items |-> items]
Property(k, v) == [key |-> k, val |-> v]

\* re.sub(pattern, str(value), string): every match is replaced; the pattern
\* with \s* also matches a padded reference.
ReSub(toks, name, value, spaces) ==
    [i \in 1..Len(toks) |->
        IF toks[i].t = "ref" /\ toks[i].s = name /\ (spaces \/ ~ toks[i].pad)
        THEN Text(value) ELSE toks[i]]

RECURSIVE ReplaceEnvVar(_, _, _)
RECURSIVE NewList(_, _, _)

\* service_test_case.py 321-338: what one property's value becomes.
ReplaceProperty(v, name, value) ==
    CASE v.kind = "str"  -> StrV(ReSub(v.toks, name, value, TRUE))
      [] v.kind = "dict" -> ReplaceEnvVar(v, name, value)
      [] v.kind = "list" -> ListV(NewList(v.items, name, value))
      [] OTHER           -> v

\* service_test_case.py 329-337: new_list takes the str items and the dict
\* items, and no others.
NewList(items, name, value) ==
    IF items = << >> THEN << >>
    ELSE LET item == Head(items)
             rest == NewList(Tail(items), name, value)
         IN  IF item.kind = "str"
             THEN << StrV(ReSub(item.toks, name, value, FALSE)) >> \o rest
             ELSE IF item.kind = "dict"
                  THEN << ReplaceEnvVar(item, name, value) >> \o rest
                  ELSE rest

\* service_test_case.py 320-339: _replace_env_var(config, name, value)
ReplaceEnvVar(c, name, value) ==
    DictV([i \in 1..Len(c.fields) |->
             Property(c.fields[i].key, ReplaceProperty(c.fields[i].val, name, value))])

\* The configurations a test is run on.
Strings ==
    { StrV(<< Text("no variable") >>), StrV(<< Ref("VAR") >>), StrV(<< Ref("VAR_1") >>),
      StrV(<< PaddedRef("VAR") >>), StrV(<< Text("pre"), Ref("VAR_1"), Text("post") >>) }

Leaves == Strings \cup {IntV(7)}

InnerDicts == { DictV(<< Property("var", l) >>) : l \in Leaves }

InnerLists == { ListV(<< l >>) : l \in {StrV(<< Ref("VAR") >>), IntV(7)} }

Items == Leaves \cup InnerDicts \cup InnerLists

Lists == UNION { { ListV(q) : q \in [1..n -> Items] } : n \in 1..MaxItems }

\* The configuration of tests/test_service_test_case.py.
TestConfig ==
    DictV(<< Property("no_var", StrV(<< Text("no variable") >>)),
             Property("with_var", StrV(<< Ref("VAR_1") >>)),
             Property("list", ListV(<< DictV(<< Property("var", StrV(<< Ref("VAR") >>)) >>),
                                       DictV(<< Property("var", StrV(<< Text("{{ "), Ref("VAR"), Text(" }}") >>)) >>),
                                       StrV(<< Ref("VAR") >>) >>)),
             Property("dict", DictV(<< Property("var", StrV(<< Ref("VAR") >>)) >>)) >>)

Configs ==
    { DictV(<< Property("p", v) >>) : v \in Leaves \cup InnerDicts \cup Lists }
       \cup { DictV(<< Property("d", DictV(<< Property("p", v) >>)) >>) : v \in InnerLists }
       \cup { TestConfig }

NoConfig == DictV(<< >>)

\* No _replace_env_vars call is under way.
EnvQuiet ==
    /\ original = NoConfig
    /\ config = NoConfig
    /\ todo = << >>
    /\ returned = TRUE

\* _replace_env_vars(config) has just been entered.
EnvInit ==
    /\ original \in Configs
    /\ config = original
    /\ todo = EnvNames
    /\ returned = FALSE

\* service_test_case.py 315-317: one turn of the loop over env_vars()
ReplaceOne ==
    /\ ~ returned
    /\ todo # << >>
    /\ config' = ReplaceEnvVar(config, Head(todo), EnvVars[Head(todo)])
    /\ todo' = Tail(todo)
    /\ UNCHANGED << original, returned, routerVars, schedVars, pubVars >>

\* service_test_case.py 318: return config
ReplaceReturn ==
    /\ ~ returned
    /\ todo = << >>
    /\ returned' = TRUE
    /\ UNCHANGED << original, config, todo, routerVars, schedVars, pubVars >>

EnvNext ==
    \/ ReplaceOne
    \/ ReplaceReturn

(* ------------------------------- Next --------------------------------- *)
Next ==
    \/ \E src \in Sources, o \in OutputIds : NotifyCall(src, o)
    \/ Dispatch
    \/ NotifyReturn
    \/ \E i \in 1..MaxTasks, outcome \in Outcomes : ProcessSignals(i, outcome)
    \/ \E i \in 1..MaxTasks : Extend(i)
    \/ \E i \in 1..MaxTasks : EventSet(i)
    \/ \E i \in 1..MaxTasks : EventClear(i)
    \/ \E b \in WaitBlocks, count \in Counts, input_id \in InputIds :
          WaitCall(b, count, input_id)
    \/ WaitAttributeError
    \/ WaitCheck
    \/ WaitEnter
    \/ WaitWake
    \/ Tick
    \/ WaitTimeout

Init == RouterInit /\ SchedInit /\ PubInit /\ EnvQuiet

Spec == Init /\ [][Next]_vars

\* The scheduler shares no state with the router: one configuration will do.
SchedSpecInit == Init /\ execution = FanOutGraph.execution

SchedSpec == SchedSpecInit /\ [][SchedNext]_vars

TargetSpec == SchedSpecInit /\ [][TargetNext]_vars

\* advance runs on the calling thread: once entered, it keeps going.
TargetFairSpec == TargetSpec /\ WF_vars(FireDue) /\ WF_vars(AdvanceReturn)

PubSpec == SchedSpecInit /\ [][PubNext]_vars

\* The router configured with SkippedAfterNamedGraph.
SkipSpecInit ==
    /\ execution = SkippedAfterNamedGraph.execution
    /\ blocks = SkippedAfterNamedGraph.blocks
    /\ RouterFresh
    /\ SchedInit /\ PubInit /\ EnvQuiet

SkipSpec == SkipSpecInit /\ [][Next]_vars

DirectSpec == Init /\ [][DirectNext]_vars

EnvSpecInit ==
    /\ RouterInit /\ execution = FanOutGraph.execution
    /\ SchedInit /\ PubInit /\ EnvInit

EnvSpec == EnvSpecInit /\ [][EnvNext]_vars

(* ============================== claims ================================ *)
Ledger(b) == processed_signals[b]

Batch(i) == tasks[i].args[1]

InLedger(i) == Range(Batch(i)) \subseteq Range(Ledger(tasks[i].block))

\* The thread of dispatch i has ended, and its processing entry point had returned.
EndedAfterReturn(i) == tasks[i].returned /\ tasks[i].status \in {"done", "raised"}

\* The completion event of dispatch i has been set.
EventFired(i) ==
    \E k \in DOMAIN WrapperSteps : WrapperSteps[k] = "set" /\ tasks[i].pc > k

\* C1 - Fan-out completeness, as a final result: every dispatch of a call
\* whose processing entry point returned and whose thread has ended has its
\* batch in its receiver's ledger, and each ledger holds len(signals)
\* entries for each such dispatch.
C1_FanOutCompleteness ==
    /\ \A i \in DOMAIN tasks : EndedAfterReturn(i) => InLedger(i)
    /\ \A b \in BlockNames :
          Len(Ledger(b)) >=
             BatchLen * Cardinality({i \in DOMAIN tasks :
                                       tasks[i].block = b /\ EndedAfterReturn(i)})

\* The receivers the execution registers for a source and an output.
Registered(src, output_id) ==
    LET entry == CHOOSE e \in Range(execution) : e.name = src
    IN  IF output_id \in DOMAIN entry.receivers
        THEN {r.name : r \in Range(entry.receivers[output_id])}
        ELSE {}

\* C2 - Receiver resolution: a notify_signals call that returned has
\* dispatched to exactly the receivers registered for its output when the
\* source has an entry for it, otherwise to exactly the default-terminal
\* receivers, and to no node when there is neither; ledgers hold only what
\* dispatches put there.
C2_ReceiverResolution ==
    /\ \A c \in DOMAIN calls :
          calls[c].status = "returned" =>
             LET src == calls[c].src
                 P == calls[c].output_id
                 entry == CHOOSE e \in Range(execution) : e.name = src
                 expected == IF P \in DOMAIN entry.receivers
                             THEN Registered(src, P)
                             ELSE Registered(src, DefaultTerminal)
             IN  {tasks[i].block : i \in TasksOf(c)} = expected
    /\ \A b \in BlockNames :
          Len(Ledger(b)) <=
             BatchLen * Cardinality({i \in DOMAIN tasks : tasks[i].block = b})

\* A call on an output without an entry fell back to the default-terminal receiver.
C2_Witness ==
    \E c \in DOMAIN calls :
       /\ calls[c].status = "returned"
       /\ calls[c].output_id = "Y"
       /\ {tasks[i].block : i \in TasksOf(c)} = {"C"}
       /\ InLedger(CHOOSE i \in TasksOf(c) : TRUE)

\* C3 - Named input port delivery: a dispatch that passes the input port
\* explicitly, once its processing entry point has returned and its thread
\* has ended, has its batch in the receiver's ledger and has fired the
\* completion event; and a wait naming an input port ends satisfied or
\* timed out, never with an error.
C3_NamedInputDelivery ==
    /\ \A i \in DOMAIN tasks :
          (Len(tasks[i].args) = 2 /\ EndedAfterReturn(i)) =>
             (InLedger(i) /\ EventFired(i))
    /\ waited.result # "AttributeError"

\* C4 - Ledger monotonicity: no step shortens a ledger, and a step that
\* appends to N's ledger appends signals of a dispatch to N whose processing
\* entry point had already returned.
C4_LedgerMonotonicity ==
    [][\A b \in BlockNames :
          /\ Len(processed_signals'[b]) >= Len(processed_signals[b])
          /\ SubSeq(processed_signals'[b], 1, Len(processed_signals[b]))
                = processed_signals[b]
          /\ \A k \in (Len(processed_signals[b]) + 1)..Len(processed_signals'[b]) :
                \E i \in DOMAIN tasks :
                   /\ tasks[i].block = b
                   /\ tasks[i].returned
                   /\ processed_signals'[b][k] \in Range(Batch(i))]_vars

\* One dispatch is counted while another is still in flight and not counted.
C4_Witness ==
    \E i, j \in DOMAIN tasks :
       /\ i # j
       /\ InLedger(i)
       /\ ~ tasks[j].returned /\ tasks[j].status = "running"
       /\ Ledger(tasks[j].block) = << >>

\* C5 - Isolation of copies: the batch of a dispatch whose own processing
\* did not rewrite it holds the values that were emitted, and so does the
\* emitter's original batch, whatever the other dispatches did.
C5_IsolationOfCopies ==
    /\ \A i \in DOMAIN tasks :
          ~ tasks[i].mutated =>
             Values(heap, Batch(i)) = calls[tasks[i].call].emitted
    /\ \A c \in DOMAIN calls : Values(heap, calls[c].signals) = calls[c].emitted

\* A rewrote its copy, and B of the same call processed its own afterwards.
C5_Witness ==
    \E i, j \in DOMAIN tasks :
       /\ tasks[i].call = tasks[j].call
       /\ tasks[i].mutated
       /\ Values(heap, Batch(i)) # calls[tasks[i].call].emitted
       /\ tasks[j].returned /\ ~ tasks[j].mutated

\* C6 - Non-blocking dispatch: while notify_signals is in its loop, its next
\* step (the next dispatch, or the return) can always be taken, whatever the
\* state of the dispatches already launched.
C6_NonBlockingDispatch == pc = "dispatch" => ENABLED NotifyStep

\* The call returned with every receiver dispatched and none of them started.
C6_Witness ==
    \E c \in DOMAIN calls :
       /\ calls[c].status = "returned"
       /\ Cardinality(TasksOf(c)) = 2
       /\ \A i \in TasksOf(c) : tasks[i].pc = 1 /\ tasks[i].status = "running"

\* C7 - No lost wake-up: a wait for count > 0 signals never sits out a
\* timeout period that began with the ledger already at count and the
\* event of that arrival already set and cleared.
C7_NoLostWakeup ==
    (waited.result = "timeout" /\ waited.count > 0) => ~ waited.reachedAtWait

\* C8 - Bounded timeout: a wait_for_processed_signals call in progress has
\* lasted at most one timeout period.
C8_BoundedTimeout ==
    pc \in {"check", "wait", "blocked"} => wf.elapsed <= TimeoutTicks

\* C9 - Unknown source: a notify_signals call whose source is in no block of
\* the execution ends in that step with an IndexError in the caller, and
\* launches nothing and changes no ledger and no event.
C9_UnknownSourceFailsFast ==
    [][(pc = "idle" /\ Len(calls') = Len(calls) + 1
          /\ calls'[Len(calls')].src \notin ExecutionNames)
       => /\ pc' = "failed"
          /\ calls'[Len(calls')].status = "IndexError"
          /\ UNCHANGED << tasks, processed_signals, processed_event >>]_vars

\* A call named a source outside the execution and failed.
C9_Witness ==
    /\ pc = "failed"
    /\ \E c \in DOMAIN calls :
          calls[c].src \notin ExecutionNames /\ calls[c].status = "IndexError"
    /\ tasks = << >>

\* C10 - Per-task error isolation: when the processing of a dispatch raised,
\* its batch is not in the ledger and its event has not fired, the caller
\* did not get the error, and every other dispatch of the call whose
\* processing returned and whose thread has ended has its batch in the
\* ledger and its event fired.
C10_ErrorIsolation ==
    \A i \in DOMAIN tasks :
       tasks[i].err = "ProcessingError" =>
          /\ Range(Batch(i)) \cap Range(Ledger(tasks[i].block)) = {}
          /\ ~ EventFired(i)
          /\ calls[tasks[i].call].status \in {"running", "returned", "KeyError"}
          /\ \A j \in TasksOf(tasks[i].call) :
                (j # i /\ EndedAfterReturn(j)) => (InLedger(j) /\ EventFired(j))

\* The instant a job created with delay d becomes due.
DueAt(j) == jobs[j].scheduledAt + asked[j].delta

\* C11 - One-shot firing: a non-repeating task has not fired while the
\* clock is below its due instant, has fired exactly once when an advance
\* that reached the due instant has returned, and never fires a second time.
C11_OneShotFiring ==
    \A j \in DOMAIN jobs :
       ~ asked[j].repeatable =>
          /\ jobs[j].fired <= 1
          /\ clock < DueAt(j) => jobs[j].fired = 0
          /\ (spc = "idle" /\ clock >= DueAt(j) /\ ~ jobs[j].cancelCalled)
                => jobs[j].fired = 1

\* A one-shot task of delay 2 survived an advance of 1, fired, and a later
\* advance that began after its due instant has returned.
C11_Witness ==
    \E j \in DOMAIN jobs :
       /\ ~ asked[j].repeatable /\ asked[j].delta = 2
       /\ jobs[j].fired = 1
       /\ spc = "idle"
       /\ last.from >= DueAt(j) /\ last.by > 0

\* C12 - Repeating firing count: a repeating task of delay d scheduled at
\* clock 0 has fired exactly 3 times when a first advance of 3*d has returned.
C12_RepeatingFiresThrice ==
    \A j \in DOMAIN jobs :
       (/\ asked[j].repeatable
        /\ jobs[j].scheduledAt = 0
        /\ ~ jobs[j].cancelCalled
        /\ spc = "idle"
        /\ last.from = 0 /\ last.by = 3 * asked[j].delta)
       => jobs[j].fired = 3

\* C13 - Cancellation is final: once cancel() was called on a task, no step
\* changes the task again: it is never fired, and a second cancel changes
\* nothing.
C13_CancellationIsFinal ==
    [][\A j \in DOMAIN jobs : jobs[j].cancelCalled => jobs'[j] = jobs[j]]_vars

\* A task cancelled before it ever fired, after an advance across its due instant.
C13_Witness ==
    \E j \in DOMAIN jobs :
       /\ jobs[j].cancelCalled
       /\ jobs[j].fired = 0
       /\ spc = "idle"
       /\ last.from < DueAt(j) /\ clock >= DueAt(j)

\* C14 - wait_for_published_signals(count > 0) waits for count signals: it
\* returns satisfied only when at least count signals are captured over all
\* topics, and it does not sit out a timeout when its check of the count
\* found count signals already captured and announced.
C14_WaitsForPublishedCount ==
    pwaited.result # None /\ pwaited.count > 0 =>
       /\ pwaited.result = "satisfied" => pwaited.total >= pwaited.count
       /\ pwaited.result = "timeout" => ~ pwaited.reachedAtCheck

RECURSIVE Substituted(_, _, _)
\* v with every [[name]] in every string, at any depth, replaced by value,
\* and everything else as it was.
Substituted(v, name, value) ==
    CASE v.kind = "str"  -> StrV(ReSub(v.toks, name, value, FALSE))
      [] v.kind = "dict" ->
            DictV([i \in 1..Len(v.fields) |->
                     Property(v.fields[i].key, Substituted(v.fields[i].val, name, value))])
      [] v.kind = "list" ->
            ListV([i \in 1..Len(v.items) |-> Substituted(v.items[i], name, value)])
      [] OTHER           -> v

RECURSIVE SubstitutedAll(_, _)
SubstitutedAll(v, names) ==
    IF names = << >> THEN v
    ELSE SubstitutedAll(Substituted(v, Head(names), EnvVars[Head(names)]), Tail(names))

RECURSIVE HasPadded(_)
\* Some string of v holds a reference written with white space.
HasPadded(v) ==
    \/ \E i \in DOMAIN v.toks : v.toks[i].pad
    \/ \E i \in DOMAIN v.fields : HasPadded(v.fields[i].val)
    \/ \E i \in DOMAIN v.items : HasPadded(v.items[i])

\* C15 - Environment-variable substitution: for a configuration whose
\* references are all written [[NAME]], _replace_env_vars returns the
\* configuration with every reference to a name of env_vars() replaced by
\* str(value) in every string at any depth, and all else unchanged.
C15_EnvVarSubstitution ==
    (returned /\ original # NoConfig /\ ~ HasPadded(original))
       => config = SubstitutedAll(original, EnvNames)

\* The processing entry point of task i's block has been invoked with its batch.
Invoked(i) == ~ (tasks[i].status = "running" /\ Step(tasks[i]) = "process_signals")

\* C16 - Per-receiver FIFO: of two batches dispatched to the same receiver,
\* the receiver's processing entry point is invoked with the earlier
\* dispatched one first.
C16_PerReceiverFIFO ==
    \A i, j \in DOMAIN tasks :
       (i < j /\ tasks[i].block = tasks[j].block /\ Invoked(j)) => Invoked(i)

\* The signal objects of the batches passed to notify_signals.
Originals == UNION {Range(calls[c].signals) : c \in DOMAIN calls}

\* The extend of dispatch i has been done.
Appended(i) ==
    \E k \in DOMAIN WrapperSteps : WrapperSteps[k] = "extend" /\ tasks[i].pc > k

\* C17, as stated - the ledger records the original batch: every ledger
\* entry is a signal of a batch passed to notify_signals and shows the
\* values that were emitted.
C17_LedgerRecordsOriginal ==
    \A b \in BlockNames : \A k \in DOMAIN Ledger(b) :
       /\ Ledger(b)[k] \in Originals
       /\ heap[Ledger(b)[k]] = "v"

\* C17, amended - the ledger records the batch the receiver was invoked
\* with: what a completed dispatch appended is its own deep copy, no signal
\* of an original batch, and a rewrite the receiver made to its copy shows
\* in the ledger.
C17_LedgerRecordsCopy ==
    \A i \in DOMAIN tasks :
       Appended(i) =>
          /\ \E k \in 0..(Len(Ledger(tasks[i].block)) - BatchLen) :
                SubSeq(Ledger(tasks[i].block), k + 1, k + BatchLen) = Batch(i)
          /\ Range(Batch(i)) \cap Originals = {}
          /\ tasks[i].mutated =>
                \E k \in DOMAIN Ledger(tasks[i].block) :
                   heap[Ledger(tasks[i].block)[k]] = "mutated"

\* A rewrote its copy and its dispatch completed: the ledger shows the rewrite.
C17_Witness ==
    \E i \in DOMAIN tasks :
       /\ tasks[i].mutated
       /\ tasks[i].status = "done"
       /\ Values(heap, Ledger(tasks[i].block)) # calls[tasks[i].call].emitted

\* Some dispatch to b has set b's completion event with its batch in b's ledger.
AnnouncedInLedger(b) ==
    \E i \in DOMAIN tasks : tasks[i].block = b /\ EventFired(i) /\ InLedger(i)

\* C18 - Append-before-notify: a dispatch whose completion event has been
\* set has its batch in its receiver's ledger; whenever the event of a node
\* is observed set, or a blocked waiter has been woken by it, the batch it
\* announces is in the node's ledger.
C18_AppendBeforeNotify ==
    /\ \A i \in DOMAIN tasks : EventFired(i) => Appended(i) /\ InLedger(i)
    /\ \A b \in BlockNames : processed_event[b] => AnnouncedInLedger(b)
    /\ (pc = "blocked" /\ wf.notified) => AnnouncedInLedger(wf.block)

\* A waiter blocked on a node has been woken by the event of a dispatch.
C18_Witness ==
    /\ pc = "blocked"
    /\ wf.notified
    /\ processed_event[wf.block]
    /\ Ledger(wf.block) # << >>

\* C19 - Edge-triggered completion event: a wait_for_processed_signals with
\* count 0 that returned because the event was observed did so for a
\* completion whose event was set after the wait began.
C19_EdgeTriggered ==
    (waited.result = "event" /\ waited.count = 0) => waited.fresh

\* Task i is an invocation made directly, not a dispatch of the router.
Direct(i) == calls[tasks[i].call].status = "direct"

\* C20 - Interception covers every invocation: a direct invocation of a
\* registered node's processing entry point whose processing returned and
\* whose thread has ended has its batch in the node's ledger and has fired
\* the node's completion event.
C20_InterceptionCoversDirect ==
    \A i \in DOMAIN tasks :
       (Direct(i) /\ EndedAfterReturn(i)) => (InLedger(i) /\ EventFired(i))

\* The firing p comes no later than the firing q in the order of advance.
InFiringOrder(p, q) == p.due < q.due \/ (p.due = q.due /\ p.idx <= q.idx)

\* C21 - Deterministic firing order inside one advance: every firing happens
\* inside the advance, at its new clock value, of a task due at or before
\* it, and no earlier in the order (due time, then scheduling order) than
\* the firing before it; when the advance returns, no Pending task, a task
\* scheduled by a fired task included, is due at or before the new clock value.
C21_FiringOrder ==
    [][/\ (spc = "firing" /\ spc' = "firing" /\ jobs' # jobs) =>
             /\ clock' = clock
             /\ clock = last.from + last.by
             /\ last'.prev.due <= clock
             /\ jobs'[last'.prev.idx].fired = Counted(jobs[last'.prev.idx].fired)
             /\ InFiringOrder(last.prev, last'.prev)
       /\ (spc = "firing" /\ spc' = "idle") =>
             \A j \in DOMAIN jobs' :
                jobs'[j].state = "Pending" => jobs'[j].due > last.from + last.by]_vars

\* An advance has returned in which a task scheduled by a fired task was
\* fired too; a task due from the start has fired as well.
C21_Witness ==
    /\ spc = "idle"
    /\ \E j, k \in DOMAIN jobs :
          /\ jobs[j].scheduledAt > 0
          /\ jobs[j].fired = 1
          /\ jobs[j].scheduledAt = last.from + last.by
          /\ jobs[k].fired = 1
          /\ asked[k].delta = 0 /\ asked[k].target = "plain" /\ jobs[k].scheduledAt = 0

\* C22 - Cancellation during firing: a repeating task whose target cancels
\* its own job while it is fired has fired at most once; once fired it is
\* Cancelled, was not re-armed, and stays as it is.
C22_CancelDuringFiring ==
    [][\A j \in DOMAIN jobs :
          (asked[j].repeatable /\ asked[j].target = "cancel") =>
             /\ jobs[j].fired <= 1
             /\ jobs[j].fired = 1 =>
                   /\ jobs[j].state = "Cancelled"
                   /\ jobs[j].due = DueAt(j)
                   /\ jobs'[j] = jobs[j]]_vars

\* A self-cancelling repeating task of delay 1 fired once, and a later
\* advance went by without firing it.
C22_Witness ==
    \E j \in DOMAIN jobs :
       /\ asked[j].repeatable /\ asked[j].target = "cancel" /\ asked[j].delta = 1
       /\ ~ (\E k \in DOMAIN jobs : k # j /\ asked[k].target = "cancel")
       /\ jobs[j].fired = 1
       /\ spc = "idle"
       /\ last.from >= DueAt(j) /\ last.by >= 1

\* C23 - Job.jump_ahead is a global clock advance: the clock never
\* decreases and changes only in the step in which a test calls
\* jump_ahead(s) on some Job handle, where it moves as the scheduler's own
\* advance(s) moves it, whichever handle was used; and when that advance
\* returns, no Pending task of any job is due at or before the clock.
C23_JumpAheadIsGlobal ==
    [][/\ clock' >= clock
       /\ clock' # clock =>
             /\ spc = "idle" /\ spc' = "firing"
             /\ last'.from = clock /\ last'.by > 0
             /\ clock' = SchedulerJumpAhead(clock, last'.by)
             /\ jobs' = jobs
       /\ (spc = "firing" /\ spc' = "idle") =>
             \A j \in DOMAIN jobs' : jobs'[j].state = "Pending" => jobs'[j].due > clock']_vars

\* During an advance requested through the handle of one job, whose own
\* task is not due, the task of another job has been fired.
C23_Witness ==
    /\ spc = "firing"
    /\ last.via \in DOMAIN jobs
    /\ last.prev.idx \in DOMAIN jobs
    /\ last.prev.idx # last.via
    /\ jobs[last.via].fired = 0
    /\ jobs[last.via].due > clock
    /\ jobs[last.prev.idx].fired = 1

\* C24 - advance always terminates: an advance that has been entered
\* returns, whatever non-negative delays the Pending tasks have.
C24_AdvanceTerminates == (spc = "firing") ~> (spc = "idle")

\* No dispatched thread is still running and no dispatch loop is under way.
Quiescent ==
    /\ pc # "dispatch"
    /\ \A i \in DOMAIN tasks : tasks[i].status \in {"done", "raised"}

\* The invocations of b's processing entry point that returned normally.
ReturnedAt(b) == {i \in DOMAIN tasks : tasks[i].block = b /\ tasks[i].returned}

\* C25 - No lost ledger updates: in every quiescent state the ledger of a
\* node holds as many signals as the batches of the invocations of its
\* processing entry point that returned normally add up to.
C25_NoLostLedgerUpdates ==
    Quiescent =>
       \A b \in BlockNames :
          Len(Ledger(b)) = BatchLen * Cardinality(ReturnedAt(b))

\* The receivers a call resolved, by their names, in the order listed.
Resolved(c) ==
    LET receivers == ResolveReceivers(AllReceivers(calls[c].src).receivers,
                                      calls[c].output_id)
    IN  [k \in DOMAIN receivers |-> receivers[k].name]

\* The place in the list of the first receiver that is not in the registry.
FirstMissing(names) ==
    CHOOSE k \in DOMAIN names :
       names[k] \notin blocks /\ \A l \in 1..(k - 1) : names[l] \in blocks

\* The receivers of the dispatches of call c, in the order of dispatch.
DispatchedTo(c) ==
    LET own == SelectSeq([i \in DOMAIN tasks |-> i], LAMBDA i : tasks[i].call = c)
    IN  [k \in DOMAIN own |-> tasks[own[k]].block]

\* The call stopped at the first missing receiver: the caller has the
\* KeyError, and the dispatches made are those to the receivers before it.
StoppedAtMissing(c) ==
    /\ pc = "failed"
    /\ \E k \in DOMAIN Resolved(c) : Resolved(c)[k] \notin blocks
    /\ DispatchedTo(c) = SubSeq(Resolved(c), 1, FirstMissing(Resolved(c)) - 1)

\* C26 - Fan-out is not all-or-nothing when a receiver is missing: a call
\* that failed on a receiver absent from the registry failed in the calling
\* thread at that receiver, dispatched exactly the receivers listed before
\* it, and each of those, once its processing has returned and its thread
\* has ended, has its batch in its ledger.
C26_PartialFanOut ==
    \A c \in DOMAIN calls :
       calls[c].status = "KeyError" =>
          /\ StoppedAtMissing(c)
          /\ \A i \in TasksOf(c) : EndedAfterReturn(i) => InLedger(i)

====
